---- MODULE Spec2Model ----
(***************************************************************************)
(* GEM-ML water segmentation example (eo-learn-examples).                  *)
(*                                                                         *)
(* The notebooks 00_Configuration, 01_DataAcquisition,                     *)
(* 02_DataNormalization and 04_PyTorchTasks_ModelForwardTask are modelled  *)
(* as one pipeline (Spec): a notebook is a sequence of cells, a cell with  *)
(* a loop is one step per loop iteration.  The remote service, the random  *)
(* draws and the downloaded rasters are the environment: every step draws  *)
(* them from small sets.                                                   *)
(*                                                                         *)
(* Three further specifications look into single parts of notebook 01:     *)
(* SpecWorkflow runs the workflow of one argument node by node on the      *)
(* rasters the service delivers, SpecPick follows one reference timestamp  *)
(* from the Sentinel-1 query to the frame task_pick keeps, and SpecAOI     *)
(* erodes the areas of interest and splits them into grid cells.           *)
(* SpecRun runs the "Workflow Arguments" and "Executor" cells of notebook  *)
(* 01 on their own with a longer argument list, and SpecTorchify calls the *)
(* transform Torchify of Example_Treecurrent/04_Testing on small arrays.   *)
(***************************************************************************)
EXTENDS Integers, Sequences, FiniteSets, TLC

VARIABLES
    pc,            \* the cell / loop position of the notebook being run
    files,         \* plain files on disk (config, T-Digest, scaler)
    disk,          \* EOPatch folders stored below dir_data
    tiffs,         \* GeoTIFFs written below dir_tiffs_showcase
    workflow_args, \* the list built by the "Workflow Arguments" cells
    split,         \* index into the split list of the acquisition loop
    draws,         \* random draws already made for the current split
    cur_i,         \* the loop variable i
    timestamps_,   \* Sentinel-2 timestamps still to be looped over
    timeinterval,  \* the name "timeinterval" of notebook 04 (may be unbound)
    exec,          \* per workflow argument: the state of its execution
    event,         \* what the last step met (query result, read result)
    stdout,        \* what the last step printed with print()
    merged_from,   \* the patches whose T-Digests went into the global one
    results,       \* per executed node of a workflow: the EOPatch it returned
    archive,       \* acquisition times of the Sentinel-1 scenes of a bbox
    npixels,       \* height x width of a bbox at config.resolution
    samples,       \* the Sentinel-2 samples the evalscript was run on
    aois,          \* per split: the polygon of its area of interest
    bbox_lists,    \* per split: the grid cells the splitter returned
    transform,     \* the Torchify object: its squeeze and nanvalue
    passed,        \* the caller's array as it was when Torchify was called
    caller_array,  \* the caller's array as it is now
    returned       \* the array Torchify returned

pvars == <<pc, files, disk, tiffs, workflow_args, split, draws, cur_i,
           timestamps_, timeinterval, exec, event, stdout, merged_from>>

tvars == <<transform, passed, caller_array, returned>>

xvars == <<results, archive, npixels, samples, aois, bbox_lists, tvars>>

vars == <<pvars, xvars>>

-----------------------------------------------------------------------------
(* Bounds of the model *)

\* len(bbox_list_) of every split and of the showcase
NBbox == 2
\* number of Sentinel-2 acquisitions the remote service knows per bbox
NTimes == 2
\* longest workflow_args list the remote answers let one cell build
MaxArgs == 1

-----------------------------------------------------------------------------
(* 00_Configuration: names and directories *)

savename == "WaterSegmentationRun"
savename_config == "config.dill"
savename_tdigest == "WaterSegmentationRun_TDigest.npy"
savename_scaler == "WaterSegmentationRun_QuantileScaler.dill"

basedir == <<"cwd", savename>>
dir_results == basedir \o <<"results">>
dir_data == basedir \o <<"data">>
dir_train == dir_data \o <<"train">>
dir_validation == dir_data \o <<"validation">>
dir_test == dir_data \o <<"test">>
dir_showcase == dir_data \o <<"showcase">>
dir_tiffs == dir_results \o <<"tiffs">>
dir_tiffs_showcase == dir_tiffs \o <<"showcase">>

\* config.threads on a non-Windows platform
threads == 5

\* number of pixels of a raster downloaded by the pipeline
PatchPixels == 2

\* config.datatimedelta (1 day 12 hours), in units of 12 hours
datatimedelta == 3

-----------------------------------------------------------------------------
(* Helpers *)

Range(s) == {s[k] : k \in 1..Len(s)}

\* the ascending lists over a set of integers (what a timestamp query returns)
RECURSIVE Ascending(_)
Ascending(S) ==
    IF S = {} THEN <<>>
    ELSE LET m == CHOOSE x \in S : \A y \in S : x <= y
         IN  <<m>> \o Ascending(S \ {m})

\* all rasters of n pixels over the pixel values V, flattened
Rasters(n, V) == [1..n -> V]

-----------------------------------------------------------------------------
(* 01_DataAcquisition: the validity checks of the workflow *)

\* np.all(array): no element is zero
np_all(array) == \A k \in 1..Len(array) : array[k] # 0

\* np.count_nonzero(array)
count_nonzero(array) == Cardinality({k \in 1..Len(array) : array[k] # 0})

\* np.any in place of np.all
checker_nodata_any(array) == \E k \in 1..Len(array) : array[k] # 0

\* np.count_nonzero(array) > 0.05*array.size in place of >=
checker_waterdata_above(array) ==
    count_nonzero(array) * 100 > 5 * Len(array)

\* bool(np.all(array))
checker_nodata(array) == np_all(array)

\* bool(np.count_nonzero(array) >= 0.05*array.size).  The product is a
\* double; for every size up to 200000 and every count the comparison
\* with the double equals the exact comparison count*100 >= 5*size.
checker_waterdata(array) == count_nonzero(array) * 100 >= 5 * Len(array)

\* the flags joined with np.any in place of np.all
zipper_any(arrays) == \E k \in 1..Len(arrays) : arrays[k]

\* bool(np.all([np.all(array) for array in arrays])) on the two flags
zipper(arrays) == \A k \in 1..Len(arrays) : arrays[k]

-----------------------------------------------------------------------------
(* The pipeline: state after a fresh checkout *)

Splits == <<"train", "validation", "test">>

\* np.random.randint(0,len(bbox_list_),40 if _=="train" else 10): the
\* number of draws, scaled to 2 for "train" and 1 otherwise
NDraws(s) == IF Splits[s] = "train" THEN 2 ELSE 1

NoExec == [st |-> "pending", valid_data |-> FALSE, valid_reference |-> FALSE,
           valid |-> FALSE]

\* What an earlier, completed run of the pipeline may have left on disk: a
\* valid training patch, and a showcase patch with its GeoTIFF.
PriorTrain ==
    [dir |-> dir_train, name |-> <<0, 1>>,
     features |-> {"data", "dmask_data", "tdigest_data", "reference",
                   "mask_reference"},
     dmask_data |-> [k \in 1..PatchPixels |-> 1],
     meta_info |-> [valid_data |-> TRUE, valid_reference |-> TRUE,
                    valid |-> TRUE]]
PriorShowcase ==
    [dir |-> dir_showcase, name |-> <<0, 1, 20200907>>,
     features |-> {"data", "dmask_data", "model_output"},
     dmask_data |-> <<>>,
     meta_info |-> [k \in {} |-> FALSE]]
PriorTiff ==
    [dir |-> dir_tiffs_showcase, name |-> <<"water", 0, 1, 20200907>>]
PriorFiles(prior) ==
    IF prior = {} THEN {}
    ELSE {<<"cwd", savename_config>>, dir_results \o <<savename_config>>}
         \cup IF PriorShowcase \in prior
              THEN {dir_results \o <<savename_tdigest>>,
                    dir_results \o <<savename_scaler>>,
                    dir_results \o <<"WaterSegmentationRun_bestloss">>}
              ELSE {}

\* no node of a workflow has run
NoResults == [node \in {} |-> <<>>]

\* no area of interest has been read
NoAois == [s \in {} |-> <<>>]

\* no array and no Torchify object
None == [shape |-> <<>>, data |-> <<>>]

\* no transform has been constructed or called
NoTransform ==
    /\ transform = [squeeze |-> <<>>, nanvalue |-> <<>>]
    /\ passed = None
    /\ caller_array = None
    /\ returned = None

Init ==
    /\ pc = "cfg"
    /\ results = NoResults
    /\ archive = {}
    /\ npixels = 0
    /\ samples = <<>>
    /\ aois = NoAois
    /\ bbox_lists = NoAois
    /\ NoTransform
    /\ \E prior \in SUBSET {PriorTrain, PriorShowcase} :
         /\ disk = prior
         /\ tiffs = IF PriorShowcase \in prior THEN {PriorTiff} ELSE {}
         /\ files = PriorFiles(prior)
    /\ workflow_args = <<>>
    /\ split = 1
    /\ draws = 0
    /\ cur_i = 0
    /\ timestamps_ = <<>>
    /\ timeinterval = <<>>  \* unbound
    /\ exec = <<>>
    /\ event = "none"
    /\ stdout = <<>>
    /\ merged_from = {}

\* os.path.exists(os.path.join(config["dir_data"],dir_)), dir_ = split/name
exists(dir_) ==
    \E p \in disk : p.dir = dir_data \o <<dir_[1]>> /\ p.name = dir_[2]

\* os.listdir(d) for a directory of patches
listdir(d) == {p \in disk : p.dir = d}

\* the file config.save() writes and Config.LOAD("config.dill") reads
ConfigSavePath == <<"cwd", savename_config>>
ConfigLoadPath == <<"cwd", "config.dill">>

-----------------------------------------------------------------------------
(* 00_Configuration *)

\* config.save() and config.save(os.path.join(dir_results, savename_config))
Configuration ==
    /\ pc = "cfg"
    /\ files' = files \cup {ConfigSavePath, dir_results \o <<savename_config>>}
    /\ pc' = "acq_load"
    /\ event' = "none"
    /\ stdout' = <<>>
    /\ UNCHANGED <<disk, tiffs, workflow_args, split, draws, cur_i,
                   timestamps_, timeinterval, exec, merged_from>>
    /\ UNCHANGED xvars

-----------------------------------------------------------------------------
(* 01_DataAcquisition: the "Workflow Arguments" cell *)

\* config = Config.LOAD("config.dill"); workflow_args = []
AcqLoad ==
    /\ pc = "acq_load"
    /\ IF ConfigLoadPath \in files
       THEN /\ pc' = "acq_draw"
            /\ event' = "read_ok"
       ELSE /\ pc' = "raised"
            /\ event' = "read_missing"
    /\ workflow_args' = <<>>
    /\ exec' = <<>>
    /\ split' = 1
    /\ draws' = 0
    /\ stdout' = <<>>
    /\ UNCHANGED <<files, disk, tiffs, cur_i, timestamps_, timeinterval,
                   merged_from>>
    /\ UNCHANGED xvars

\* one iteration of "for i in np.random.randint(...)": the Sentinel-2
\* query get_available_timestamps stands outside the try statement
AcqDraw ==
    /\ pc = "acq_draw"
    /\ split <= Len(Splits)
    /\ draws < NDraws(split)
    /\ \E i \in 0..(NBbox - 1) :
         /\ cur_i' = i
         /\ stdout' = <<<<"progress", i + 1, NBbox>>>>
         /\ \/ /\ event' = "s2_raise"
               /\ pc' = "raised"
               /\ timestamps_' = <<>>
            \/ \E ts \in SUBSET (1..NTimes) :
                  /\ event' = "s2_ok"
                  /\ timestamps_' = Ascending(ts)
                  /\ pc' = IF ts = {} THEN "acq_draw" ELSE "acq_ts"
    /\ draws' = draws + 1
    /\ UNCHANGED <<files, disk, tiffs, workflow_args, split,
                   timeinterval, exec, merged_from>>
    /\ UNCHANGED xvars

\* the entry appended for bbox i of split s and reference time t
WorkflowArg(s, i, t) ==
    [bbox |-> <<Splits[s], i>>,
     time_interval |-> <<t - datatimedelta, t>>,
     reference_time |-> t,
     eopatch_folder |-> <<Splits[s], <<i, t>>>>,
     filename |-> <<>>]

\* the entry appended without looking at the disk
AppendAlways(args, arg, found) ==
    IF found THEN Append(args, arg) ELSE args

\* if timestamps2_: dir_ = ...; if not os.path.exists(...): append
AppendIfNew(args, arg, found) ==
    IF found /\ ~exists(arg.eopatch_folder) THEN Append(args, arg) ELSE args

\* one iteration of "for timestamp_ in timestamps_": the Sentinel-1 query
\* in the try statement, "except Exception as e: print(e, interval)";
\* the remote answers let the list grow to the given length
AcqTimestampUpTo(longest) ==
    /\ pc = "acq_ts"
    /\ timestamps_ # <<>>
    /\ LET timestamp_ == Head(timestamps_)
           arg == WorkflowArg(split, cur_i, timestamp_)
       IN  \/ /\ event' = "s1_raise"
              /\ stdout' = <<<<"error", timestamp_ - datatimedelta, timestamp_>>>>
              /\ workflow_args' = workflow_args
           \/ \E found \in BOOLEAN :
                 /\ (found /\ ~exists(arg.eopatch_folder))
                      => Len(workflow_args) < longest
                 /\ event' = IF found THEN "s1_ok" ELSE "s1_empty"
                 /\ stdout' = <<>>
                 /\ workflow_args' = AppendIfNew(workflow_args, arg, found)
    /\ timestamps_' = Tail(timestamps_)
    /\ pc' = IF Tail(timestamps_) = <<>> THEN "acq_draw" ELSE "acq_ts"
    /\ UNCHANGED <<files, disk, tiffs, split, draws, cur_i, timeinterval,
                   exec, merged_from>>
    /\ UNCHANGED xvars

AcqTimestamp == AcqTimestampUpTo(MaxArgs)

\* the draws of a split are used up: print(), next split
AcqNextSplit ==
    /\ pc = "acq_draw"
    /\ split <= Len(Splits)
    /\ draws = NDraws(split)
    /\ split' = split + 1
    /\ draws' = 0
    /\ event' = "none"
    /\ stdout' = <<<<"newline">>>>
    /\ UNCHANGED <<pc, files, disk, tiffs, workflow_args, cur_i,
                   timestamps_, timeinterval, exec, merged_from>>
    /\ UNCHANGED xvars

\* print(f"Number of downloads: ..."); EOExecutor(workflow, workflow_args)
AcqBuilt ==
    /\ pc = "acq_draw"
    /\ split > Len(Splits)
    /\ pc' = "acq_exec"
    /\ exec' = [k \in 1..Len(workflow_args) |-> NoExec]
    /\ event' = "none"
    /\ stdout' = <<<<"downloads", Len(workflow_args)>>>>
    /\ UNCHANGED <<files, disk, tiffs, workflow_args, split, draws,
                   cur_i, timestamps_, timeinterval, merged_from>>
    /\ UNCHANGED xvars

-----------------------------------------------------------------------------
(* 01_DataAcquisition: the workflow and the executor *)

\* the features every patch of the acquisition workflow carries
AcquisitionFeatures ==
    {"data", "dmask_data", "tdigest_data", "reference", "mask_reference"}

\* node_data .. node_zip on the rasters downloaded for one argument:
\* task_data_check, task_reference_check and task_zip set the meta info
Workflow(arg, dmask_data, reference) ==
    LET valid_data == checker_nodata(dmask_data)
        valid_reference == checker_waterdata(reference)
    IN  [dir |-> dir_data \o <<arg.eopatch_folder[1]>>,
         name |-> arg.eopatch_folder[2],
         features |-> AcquisitionFeatures,
         dmask_data |-> dmask_data,
         meta_info |-> [valid_data |-> valid_data,
                        valid_reference |-> valid_reference,
                        valid |-> zipper(<<valid_data, valid_reference>>)]]

\* saving with OverwritePermission.OVERWRITE_PATCH: the folder is replaced
SaveTask(d, eopatch) ==
    {p \in d : ~(p.dir = eopatch.dir /\ p.name = eopatch.name)} \cup {eopatch}

\* SaveValidTask(feature_to_check = (META_INFO, "valid")): only a patch
\* whose flag is set is saved
SaveValidTask(d, eopatch) ==
    IF eopatch.meta_info.valid THEN SaveTask(d, eopatch) ELSE d

Running == {k \in 1..Len(exec) : exec[k].st = "running"}

\* a worker of executor.run(workers=config["threads"]) takes an argument
AcqExecStart(k) ==
    /\ pc = "acq_exec"
    /\ exec[k].st = "pending"
    /\ Cardinality(Running) < threads
    /\ exec' = [exec EXCEPT ![k].st = "running"]
    /\ event' = "none"
    /\ stdout' = <<>>
    /\ UNCHANGED <<pc, files, disk, tiffs, workflow_args, split, draws,
                   cur_i, timestamps_, timeinterval, merged_from>>
    /\ UNCHANGED xvars

\* the worker ends: a task raised (the executor records the failure), or
\* the workflow ran to node_save on the rasters the service delivered
AcqExecFinish(k) ==
    /\ pc = "acq_exec"
    /\ exec[k].st = "running"
    /\ \/ /\ exec' = [exec EXCEPT ![k].st = "failed"]
          /\ disk' = disk
       \/ \E dmask_data \in Rasters(PatchPixels, {0, 1}),
             reference \in Rasters(PatchPixels, {0, 1}) :
             LET eopatch == Workflow(workflow_args[k], dmask_data, reference)
             IN  /\ disk' = SaveValidTask(disk, eopatch)
                 /\ exec' = [exec EXCEPT ![k] =
                        [st |-> "done",
                         valid_data |-> eopatch.meta_info.valid_data,
                         valid_reference |-> eopatch.meta_info.valid_reference,
                         valid |-> eopatch.meta_info.valid]]
    /\ event' = "none"
    /\ stdout' = <<>>
    /\ UNCHANGED <<pc, files, tiffs, workflow_args, split, draws, cur_i,
                   timestamps_, timeinterval, merged_from>>
    /\ UNCHANGED xvars

\* executor.run returns; the counts of stored patches are printed
AcqDone ==
    /\ pc = "acq_exec"
    /\ \A k \in 1..Len(exec) : exec[k].st \in {"done", "failed"}
    /\ pc' = "norm_load"
    /\ event' = "none"
    /\ stdout' = <<<<"stored",
                     Cardinality(listdir(dir_train)),
                     Cardinality(listdir(dir_validation)),
                     Cardinality(listdir(dir_test))>>>>
    /\ UNCHANGED <<files, disk, tiffs, workflow_args, split, draws,
                   cur_i, timestamps_, timeinterval, exec, merged_from>>
    /\ UNCHANGED xvars

-----------------------------------------------------------------------------
(* 02_DataNormalization *)

\* a new kernel; config = Config.LOAD("config.dill")
NormLoad ==
    /\ pc = "norm_load"
    /\ IF ConfigLoadPath \in files
       THEN /\ pc' = "norm_merge"
            /\ event' = "read_ok"
       ELSE /\ pc' = "raised"
            /\ event' = "read_missing"
    /\ workflow_args' = <<>>
    /\ exec' = <<>>
    /\ split' = 1
    /\ draws' = 0
    /\ cur_i' = 0
    /\ timestamps_' = <<>>
    /\ stdout' = <<>>
    /\ UNCHANGED <<files, disk, tiffs, timeinterval, merged_from>>
    /\ UNCHANGED xvars

\* the patches of every split instead of those of dir_train
paths_every_split ==
    {p \in disk : p.dir \in {dir_train, dir_validation, dir_test}}

\* paths = [os.path.join(config["dir_train"],dir_) for dir_ in os.listdir(...)]
paths == listdir(dir_train)

\* feature = (FeatureType.SCALAR_TIMELESS, 'tdigest_data')
feature == "tdigest_data"

\* the file np.save writes the merged T-Digest to
TDigestSavePath == dir_results \o <<savename_tdigest>>

\* tdigest = mergeTDigests(paths, feature, ...); np.save(..., tdigest)
NormMerge ==
    /\ pc = "norm_merge"
    /\ IF \A p \in paths : feature \in p.features
       THEN /\ merged_from' = {[dir |-> p.dir, name |-> p.name] : p \in paths}
            /\ files' = files \cup {TDigestSavePath}
            /\ pc' = "norm_scaler"
            /\ event' = "read_ok"
            /\ stdout' = <<<<"merged", Cardinality(paths)>>>>
       ELSE /\ UNCHANGED <<merged_from, files>>
            /\ pc' = "raised"
            /\ event' = "read_missing"
            /\ stdout' = <<>>
    /\ UNCHANGED <<disk, tiffs, workflow_args, split, draws, cur_i,
                   timestamps_, timeinterval, exec>>
    /\ UNCHANGED xvars

\* savename = os.path.join(config["dir_results"],config["savename_scaler"])
ScalerSavePath == dir_results \o <<savename_scaler>>

\* Scaler = QuantileScaler_eolearn_tdigest(tdigest, ...); Scaler.save()
NormScaler ==
    /\ pc = "norm_scaler"
    /\ files' = files \cup {ScalerSavePath}
    /\ pc' = "train"
    /\ event' = "none"
    /\ stdout' = <<>>
    /\ UNCHANGED <<disk, tiffs, workflow_args, split, draws, cur_i,
                   timestamps_, timeinterval, exec, merged_from>>
    /\ UNCHANGED xvars

-----------------------------------------------------------------------------
(* 03_TrainingValidationTesting *)

\* config.model_savename_bestloss
model_savename_bestloss == "WaterSegmentationRun_bestloss"

\* the file the trained model is stored in and model.load reads
ModelPath == dir_results \o <<model_savename_bestloss>>

\* the training notebook loads the configuration and the scaler and
\* stores the model with the best validation loss
Training ==
    /\ pc = "train"
    /\ IF ConfigLoadPath \in files /\ ScalerSavePath \in files
       THEN /\ files' = files \cup {ModelPath}
            /\ pc' = "inf_load"
            /\ event' = "read_ok"
       ELSE /\ files' = files
            /\ pc' = "raised"
            /\ event' = "read_missing"
    /\ stdout' = <<>>
    /\ UNCHANGED <<disk, tiffs, workflow_args, split, draws, cur_i,
                   timestamps_, timeinterval, exec, merged_from>>
    /\ UNCHANGED xvars

-----------------------------------------------------------------------------
(* 04_PyTorchTasks_ModelForwardTask *)

\* config.end_showcase = dt.datetime(year=2020,month=9,day=7), as yyyymmdd
end_showcase == 20200907

\* the value of a name that has not been assigned yet
Unbound == <<>>

\* config = Config.LOAD("config.dill"); config.linuxify()
InfLoad ==
    /\ pc = "inf_load"
    /\ IF ConfigLoadPath \in files
       THEN /\ pc' = "inf_model"
            /\ event' = "read_ok"
       ELSE /\ pc' = "raised"
            /\ event' = "read_missing"
    /\ stdout' = <<>>
    /\ UNCHANGED <<files, disk, tiffs, workflow_args, split, draws,
                   cur_i, timestamps_, timeinterval, exec, merged_from>>
    /\ UNCHANGED xvars

\* the scaler looked for in the data directory
ScalerLoadPath_data == dir_data \o <<savename_scaler>>

\* QuantileScaler_eolearn_tdigest.LOAD(os.path.join(dir_results, savename_scaler))
ScalerLoadPath == dir_results \o <<savename_scaler>>

\* model.load(os.path.join(config["dir_results"],config["model_savename_bestloss"]))
ModelLoadPath == dir_results \o <<model_savename_bestloss>>

\* the scaler and the model are loaded; workflow_args = []
InfModel ==
    /\ pc = "inf_model"
    /\ IF ScalerLoadPath \in files /\ ModelLoadPath \in files
       THEN /\ pc' = "inf_build"
            /\ event' = "read_ok"
       ELSE /\ pc' = "raised"
            /\ event' = "read_missing"
    /\ workflow_args' = <<>>
    /\ exec' = <<>>
    /\ cur_i' = 0
    /\ timeinterval' = Unbound
    /\ stdout' = <<>>
    /\ UNCHANGED <<files, disk, tiffs, split, draws, timestamps_,
                   merged_from>>
    /\ UNCHANGED xvars

\* the entry appended for showcase bbox i and its interval
ShowcaseArg(i, interval) ==
    [bbox |-> <<"showcase", i>>,
     time_interval |-> interval,
     reference_time |-> interval[2],
     eopatch_folder |-> <<"showcase", <<i>> \o interval>>,
     filename |-> <<i>> \o interval]

\* one iteration of "for i in range(len(bbox_list_))": the whole body is
\* in the try statement, "except Exception as e: print(e,timeinterval)"
InfBuild ==
    /\ pc = "inf_build"
    /\ cur_i < NBbox
    /\ \/ /\ timeinterval = Unbound
          /\ event' = "handler_raise"
          /\ pc' = "raised"
          /\ stdout' = <<<<"progress", cur_i + 1, NBbox>>>>
          /\ UNCHANGED <<workflow_args, timeinterval, cur_i>>
       \/ /\ timeinterval # Unbound
          /\ event' = "parse_raise"
          /\ pc' = pc
          /\ stdout' = <<<<"progress", cur_i + 1, NBbox>>,
                         <<"error">> \o timeinterval>>
          /\ cur_i' = cur_i + 1
          /\ UNCHANGED <<workflow_args, timeinterval>>
       \/ \E start \in 1..NTimes :
             LET interval == <<start, end_showcase>>
                 arg == ShowcaseArg(cur_i, interval)
             IN  /\ ~exists(arg.eopatch_folder)
                      => Len(workflow_args) < MaxArgs
                 /\ event' = "parse_ok"
                 /\ pc' = pc
                 /\ stdout' = <<<<"progress", cur_i + 1, NBbox>>>>
                 /\ timeinterval' = interval
                 /\ workflow_args' = AppendIfNew(workflow_args, arg, TRUE)
                 /\ cur_i' = cur_i + 1
    /\ UNCHANGED <<files, disk, tiffs, split, draws, timestamps_, exec,
                   merged_from>>
    /\ UNCHANGED xvars

\* print(); print(f"Number of downloads/calculations: ...")
InfBuilt ==
    /\ pc = "inf_build"
    /\ cur_i = NBbox
    /\ pc' = "inf_exec"
    /\ exec' = [k \in 1..Len(workflow_args) |-> NoExec]
    /\ event' = "none"
    /\ stdout' = <<<<"newline">>, <<"downloads", Len(workflow_args)>>>>
    /\ UNCHANGED <<files, disk, tiffs, workflow_args, split, draws,
                   cur_i, timestamps_, timeinterval, merged_from>>
    /\ UNCHANGED xvars

\* the features of a patch of the inference workflow
ShowcaseFeatures == {"data", "dmask_data", "model_output"}

NoMeta == [k \in {} |-> FALSE]

\* the patch saved right after the forward pass, without an export
NextNode_save_first(st) ==
    CASE st = "pending" -> "node_data"
      [] st = "node_data" -> "node_model"
      [] st = "node_model" -> "node_save"
      [] st = "node_tiff" -> "node_save"

\* the order EOWorkflow.from_endnodes(node_save) runs the nodes in:
\* node_data, node_model, node_tiff, node_save
NextNode(st) ==
    CASE st = "pending" -> "node_data"
      [] st = "node_data" -> "node_model"
      [] st = "node_model" -> "node_tiff"
      [] st = "node_tiff" -> "node_save"

\* ExecuteME.execute(..., threads = 0): the arguments are run in order
Current == CHOOSE k \in 1..Len(exec) :
              /\ exec[k].st \notin {"node_save", "failed"}
              /\ \A j \in 1..(k - 1) : exec[j].st \in {"node_save", "failed"}

\* the next node of the workflow of the current argument has run
InfNode ==
    /\ pc = "inf_exec"
    /\ \E k \in 1..Len(exec) : exec[k].st \notin {"node_save", "failed"}
    /\ LET k == Current
           arg == workflow_args[k]
           node == NextNode(exec[k].st)
           eopatch == [dir |-> dir_data \o <<arg.eopatch_folder[1]>>,
                       name |-> arg.eopatch_folder[2],
                       features |-> ShowcaseFeatures,
                       dmask_data |-> <<>>,
                       meta_info |-> NoMeta]
       IN  /\ exec' = [exec EXCEPT ![k].st = node]
           /\ tiffs' = IF node = "node_tiff"
                        THEN tiffs \cup {[dir |-> dir_tiffs_showcase,
                                          name |-> <<"water">> \o arg.filename]}
                        ELSE tiffs
           /\ disk' = IF node = "node_save" THEN SaveTask(disk, eopatch)
                       ELSE disk
    /\ event' = "none"
    /\ stdout' = <<>>
    /\ UNCHANGED <<pc, files, workflow_args, split, draws, cur_i,
                   timestamps_, timeinterval, merged_from>>
    /\ UNCHANGED xvars

\* a task of the workflow of the current argument raised
InfNodeFails ==
    /\ pc = "inf_exec"
    /\ \E k \in 1..Len(exec) : exec[k].st \notin {"node_save", "failed"}
    /\ exec' = [exec EXCEPT ![Current].st = "failed"]
    /\ event' = "task_raise"
    /\ stdout' = <<>>
    /\ UNCHANGED <<pc, files, disk, tiffs, workflow_args, split, draws,
                   cur_i, timestamps_, timeinterval, merged_from>>
    /\ UNCHANGED xvars

\* ExecuteME.execute returns; the numbers of patches are printed
InfDone ==
    /\ pc = "inf_exec"
    /\ \A k \in 1..Len(exec) : exec[k].st \in {"node_save", "failed"}
    /\ pc' = "done"
    /\ event' = "none"
    /\ stdout' = <<<<"stored", Cardinality(listdir(dir_showcase))>>>>
    /\ UNCHANGED <<files, disk, tiffs, workflow_args, split, draws,
                   cur_i, timestamps_, timeinterval, exec, merged_from>>
    /\ UNCHANGED xvars

Next ==
    \/ Configuration
    \/ AcqLoad
    \/ AcqDraw
    \/ AcqTimestamp
    \/ AcqNextSplit
    \/ AcqBuilt
    \/ \E k \in 1..Len(exec) : AcqExecStart(k)
    \/ \E k \in 1..Len(exec) : AcqExecFinish(k)
    \/ AcqDone
    \/ NormLoad
    \/ NormMerge
    \/ NormScaler
    \/ Training
    \/ InfLoad
    \/ InfModel
    \/ InfBuild
    \/ InfBuilt
    \/ InfNode
    \/ InfNodeFails
    \/ InfDone

Spec == Init /\ [][Next]_vars

-----------------------------------------------------------------------------
(* 01_DataAcquisition: the workflow of one argument, node by node *)

\* longest raster (height x width of a bbox) of the workflow of one argument
MaxPixels == 21
\* most water pixels of a downloaded reference
MaxWater == 2
\* latest acquisition time of the Sentinel-1 archive, in units of 12 hours
MaxTime == 4

\* eopatch[feature] = value
Set(eopatch, f, value) ==
    [x \in DOMAIN eopatch \cup {f} |-> IF x = f THEN value ELSE eopatch[x]]

\* the rasters of m pixels the service delivers as dataMask of Sentinel-1:
\* complete, empty, or complete but for the first, the middle or the last
\* pixel
DataMasks(m) ==
    {[k \in 1..m |-> 1], [k \in 1..m |-> 0]}
        \cup {[k \in 1..m |-> IF k = h THEN 0 ELSE 1] :
                h \in {1, (m + 1) \div 2, m} \cap (1..m)}

\* the rasters of n pixels the evalscript classifies as water (NDWI > 0.1):
\* w water pixels, first or last in the raster
WaterMasks(n) ==
    {[k \in 1..n |-> IF k <= w THEN 1 ELSE 0] : w \in 0..MaxWater}
        \cup {[k \in 1..n |-> IF k > n - w THEN 1 ELSE 0] : w \in 0..MaxWater}

\* the values of a Sentinel-2 sample: dataMask, and CLM of s2cloudless
\* (0 clear, 1 cloud, 255 no data)
Samples == [dataMask : {0, 1}, CLM : {0, 1, 255}]

\* the scenes of n pixels: the first pixel has one sample, the others another
Scenes(n) ==
    {[k \in 1..n |-> IF k = 1 THEN first ELSE other] :
        first \in Samples, other \in {[dataMask |-> 1, CLM |-> 0],
                                      [dataMask |-> 0, CLM |-> 1]}}

\* the Sentinel-1 acquisitions of the archive within a time interval
Available(time_interval) ==
    Ascending({s \in archive :
                 time_interval[1] <= s /\ s <= time_interval[2]})

\* task_data: all Sentinel-1 frames of the interval with their dataMask
task_data(arg, dmask_data) ==
    [bbox |-> arg.bbox,
     data |-> Available(arg.time_interval),
     dmask_data |-> dmask_data,
     meta_info |-> [k \in {} |-> FALSE]]

\* task_pick: idx = [[-1],...] keeps the last frame of the feature data
task_pick(eopatch) ==
    Set(eopatch, "data", <<eopatch.data[Len(eopatch.data)]>>)

\* task_tdigest: the T-Digest of the feature data
task_tdigest(eopatch) ==
    Set(eopatch, "tdigest_data", <<"tdigest">> \o eopatch.data)

\* MapFeatureTask: meta_info[name] = map_function(eopatch[feature])
MapFeatureTask(eopatch, name, flag) ==
    Set(eopatch, "meta_info", Set(eopatch.meta_info, name, flag))

\* task_data_check: valid_data = checker_nodata(dmask_data)
task_data_check(eopatch) ==
    MapFeatureTask(eopatch, "valid_data", checker_nodata(eopatch.dmask_data))

\* the JavaScript !x written to a UINT8 band: 1 for 0, else 0
Not(x) == IF x = 0 THEN 1 ELSE 0

\* cmask_reference: [!samples.CLM]
cmask_reference(sample) == Not(sample.CLM)

\* task_reference: evaluatePixel on every pixel of the scene
task_reference(arg, water, scene) ==
    [bbox |-> arg.bbox,
     reference |-> water,
     dmask_reference |-> [k \in 1..Len(scene) |-> scene[k].dataMask],
     cmask_reference |-> [k \in 1..Len(scene) |-> cmask_reference(scene[k])],
     meta_info |-> [k \in {} |-> FALSE]]

\* join_operation = 'or'
logical_or(a, b) == IF a # 0 \/ b # 0 THEN 1 ELSE 0

\* join_operation = 'and': np.logical_and
join_operation(a, b) == IF a # 0 /\ b # 0 THEN 1 ELSE 0

\* task_reference_mask: JoinMasksTask of dmask_reference and cmask_reference
task_reference_mask(eopatch) ==
    Set(eopatch, "mask_reference",
        [k \in 1..Len(eopatch.dmask_reference) |->
            join_operation(eopatch.dmask_reference[k],
                           eopatch.cmask_reference[k])])

\* task_reference_check: valid_reference = checker_waterdata(reference)
task_reference_check(eopatch) ==
    MapFeatureTask(eopatch, "valid_reference",
                   checker_waterdata(eopatch.reference))

\* task_merge: the features of both patches in one patch
task_merge(a, b) ==
    [x \in DOMAIN a \cup DOMAIN b |->
        IF x = "meta_info"
        THEN [m \in DOMAIN a.meta_info \cup DOMAIN b.meta_info |->
                IF m \in DOMAIN a.meta_info THEN a.meta_info[m]
                ELSE b.meta_info[m]]
        ELSE IF x \in DOMAIN a THEN a[x] ELSE b[x]]

\* task_zip: valid = zipper(valid_data, valid_reference)
task_zip(eopatch) ==
    MapFeatureTask(eopatch, "valid",
                   zipper(<<eopatch.meta_info.valid_data,
                            eopatch.meta_info.valid_reference>>))

\* the patch as task_save stores it for eopatch_folder below dir_data
Folder(eopatch, eopatch_folder) ==
    Set(Set(eopatch, "dir", dir_data \o <<eopatch_folder[1]>>),
        "name", eopatch_folder[2])

\* the inputs of every node of the workflow
Inputs(node) ==
    CASE node = "node_data" -> {}
      [] node = "node_pick" -> {"node_data"}
      [] node = "node_tdigest" -> {"node_pick"}
      [] node = "node_data_check" -> {"node_tdigest"}
      [] node = "node_reference" -> {}
      [] node = "node_reference_mask" -> {"node_reference"}
      [] node = "node_reference_check" -> {"node_reference_mask"}
      [] node = "node_merge" -> {"node_data_check", "node_reference_check"}
      [] node = "node_zip" -> {"node_merge"}
      [] node = "node_save" -> {"node_zip"}

\* a node runs once, after the nodes it takes its inputs from
Ready(node) ==
    /\ pc = "workflow"
    /\ node \notin DOMAIN results
    /\ Inputs(node) \subseteq DOMAIN results

\* the node returned eopatch
Returns(node, eopatch) ==
    results' = [x \in DOMAIN results \cup {node} |->
                  IF x = node THEN eopatch ELSE results[x]]

\* what a node of the workflow leaves alone
NodeFrame ==
    UNCHANGED <<pc, files, tiffs, workflow_args, split, draws, cur_i,
                timestamps_, timeinterval, exec, event, stdout, merged_from,
                archive, npixels, aois, bbox_lists, tvars>>

node_data ==
    /\ Ready("node_data")
    /\ LET arg == workflow_args[1]
       IN  \E dmask_data \in
                 DataMasks(Len(Available(arg.time_interval)) * npixels) :
              Returns("node_data", task_data(arg, dmask_data))
    /\ UNCHANGED disk
    /\ UNCHANGED samples
    /\ NodeFrame

node_pick ==
    /\ Ready("node_pick")
    /\ Len(results["node_data"].data) > 0
    /\ Returns("node_pick", task_pick(results["node_data"]))
    /\ UNCHANGED disk
    /\ UNCHANGED samples
    /\ NodeFrame

node_tdigest ==
    /\ Ready("node_tdigest")
    /\ Returns("node_tdigest", task_tdigest(results["node_pick"]))
    /\ UNCHANGED disk
    /\ UNCHANGED samples
    /\ NodeFrame

node_data_check ==
    /\ Ready("node_data_check")
    /\ Returns("node_data_check", task_data_check(results["node_tdigest"]))
    /\ UNCHANGED disk
    /\ UNCHANGED samples
    /\ NodeFrame

node_reference ==
    /\ Ready("node_reference")
    /\ \E water \in WaterMasks(npixels), scene \in Scenes(npixels) :
          /\ samples' = scene
          /\ Returns("node_reference",
                     task_reference(workflow_args[1], water, scene))
    /\ UNCHANGED disk
    /\ NodeFrame

node_reference_mask ==
    /\ Ready("node_reference_mask")
    /\ Returns("node_reference_mask",
               task_reference_mask(results["node_reference"]))
    /\ UNCHANGED disk
    /\ UNCHANGED samples
    /\ NodeFrame

node_reference_check ==
    /\ Ready("node_reference_check")
    /\ Returns("node_reference_check",
               task_reference_check(results["node_reference_mask"]))
    /\ UNCHANGED disk
    /\ UNCHANGED samples
    /\ NodeFrame

node_merge ==
    /\ Ready("node_merge")
    /\ Returns("node_merge", task_merge(results["node_data_check"],
                                        results["node_reference_check"]))
    /\ UNCHANGED disk
    /\ UNCHANGED samples
    /\ NodeFrame

node_zip ==
    /\ Ready("node_zip")
    /\ Returns("node_zip", task_zip(results["node_merge"]))
    /\ UNCHANGED disk
    /\ UNCHANGED samples
    /\ NodeFrame

node_save ==
    /\ Ready("node_save")
    /\ LET eopatch == Folder(results["node_zip"],
                             workflow_args[1].eopatch_folder)
       IN  /\ disk' = SaveValidTask(disk, eopatch)
           /\ Returns("node_save", eopatch)
    /\ UNCHANGED samples
    /\ NodeFrame

\* the executor runs the workflow on one argument of the split "train":
\* the bbox has npixels pixels, the archive holds one or two Sentinel-1
\* scenes of the interval
InitWorkflow ==
    /\ pc = "workflow"
    /\ files = {ConfigSavePath}
    /\ disk = {}
    /\ tiffs = {}
    /\ workflow_args = <<WorkflowArg(1, 0, MaxTime)>>
    /\ split = 1
    /\ draws = 0
    /\ cur_i = 0
    /\ timestamps_ = <<>>
    /\ timeinterval = <<>>
    /\ exec = <<>>
    /\ event = "none"
    /\ stdout = <<>>
    /\ merged_from = {}
    /\ results = NoResults
    /\ archive \in {{MaxTime}, {MaxTime - 1, MaxTime}}
    /\ npixels \in 1..MaxPixels
    /\ samples = <<>>
    /\ aois = NoAois
    /\ bbox_lists = NoAois
    /\ NoTransform

NextWorkflow ==
    \/ node_data
    \/ node_pick
    \/ node_tdigest
    \/ node_data_check
    \/ node_reference
    \/ node_reference_mask
    \/ node_reference_check
    \/ node_merge
    \/ node_zip
    \/ node_save

SpecWorkflow == InitWorkflow /\ [][NextWorkflow]_vars

-----------------------------------------------------------------------------
(* 01_DataAcquisition: from a reference timestamp to the picked frame *)

\* one iteration of "for timestamp_ in timestamps_" for a bbox whose
\* Sentinel-1 archive is known: timestamps2_ are the acquisitions within
\* (timestamp_ - datatimedelta, timestamp_)
AcqTimestampArchive ==
    /\ pc = "acq_ts"
    /\ timestamps_ # <<>>
    /\ LET timestamp_ == Head(timestamps_)
           arg == WorkflowArg(split, cur_i, timestamp_)
           timestamps2_ == Available(arg.time_interval)
       IN  /\ workflow_args'
                = AppendIfNew(workflow_args, arg, timestamps2_ # <<>>)
           /\ event' = IF timestamps2_ # <<>> THEN "s1_ok" ELSE "s1_empty"
           /\ pc' = IF timestamps2_ # <<>> THEN "workflow" ELSE "acq_draw"
    /\ timestamps_' = Tail(timestamps_)
    /\ stdout' = <<>>
    /\ UNCHANGED <<files, disk, tiffs, split, draws, cur_i, timeinterval,
                   exec, merged_from, results, archive, npixels, samples,
                   aois, bbox_lists, tvars>>

\* a bbox of the split "train" with any Sentinel-1 archive and one
\* Sentinel-2 reference timestamp
InitPick ==
    /\ pc = "acq_ts"
    /\ files = {ConfigSavePath}
    /\ disk = {}
    /\ tiffs = {}
    /\ workflow_args = <<>>
    /\ split = 1
    /\ draws = 0
    /\ cur_i = 0
    /\ \E t \in 0..MaxTime : timestamps_ = <<t>>
    /\ timeinterval = <<>>
    /\ exec = <<>>
    /\ event = "none"
    /\ stdout = <<>>
    /\ merged_from = {}
    /\ results = NoResults
    /\ archive \in SUBSET (0..MaxTime)
    /\ npixels \in 1..PatchPixels
    /\ samples = <<>>
    /\ aois = NoAois
    /\ bbox_lists = NoAois
    /\ NoTransform

NextPick ==
    \/ AcqTimestampArchive
    \/ node_data
    \/ node_pick

SpecPick == InitPick /\ [][NextPick]_vars

-----------------------------------------------------------------------------
(* 01_DataAcquisition: areas of interest and their grids *)

\* config.patchpixelwidth (256) and config.resolution (20 m), scaled
patchpixelwidth == 2
resolution == 2

\* config.AOIbuffer = -config["patchpixelwidth"]*config["resolution"]/2
AOIbuffer == -((patchpixelwidth * resolution) \div 2)

\* number of grid cells on either side of the origin of the UTM zone
GridCells == 2

\* the easting and northing the areas of interest lie within
Extent == GridCells * patchpixelwidth * resolution

\* u + k*sqrt(2) <= v, for a non-negative integer k
LeqShifted(u, k, v) == v - u >= 0 /\ (v - u) * (v - u) >= 2 * k * k

Max(a, b) == IF a >= b THEN a ELSE b
Min(a, b) == IF a <= b THEN a ELSE b

\* An area of interest is a convex polygon in one UTM zone: the points with
\* x0 <= x <= x1, y0 <= y <= y1 and lo + inset*sqrt(2) <= x + y <=
\* hi - inset*sqrt(2).  A polygon read from a file has inset 0.
Polygon(x0, x1, y0, y1, lo, hi) ==
    [x0 |-> x0, x1 |-> x1, y0 |-> y0, y1 |-> y1, lo |-> lo, hi |-> hi,
     inset |-> 0]

\* the polygons share area
Overlap(p, q) ==
    LET x0 == Max(p.x0, q.x0)
        x1 == Min(p.x1, q.x1)
        y0 == Max(p.y0, q.y0)
        y1 == Min(p.y1, q.y1)
        lo == Max(p.lo, q.lo)
        hi == Min(p.hi, q.hi)
    IN  x0 < x1 /\ y0 < y1 /\ lo < hi /\ Max(lo, x0 + y0) < Min(hi, x1 + y1)

\* the polygons a geojson file of the inputs may hold
Polygons ==
    {p \in {Polygon(x[1], x[2], -Extent, Extent, s[1], s[2]) :
              x \in {<<-Extent, Extent>>, <<-Extent, -AOIbuffer>>,
                     <<-AOIbuffer, Extent>>},
              s \in {<<-2 * Extent, 2 * Extent>>,
                     <<-2 * Extent, -2 * AOIbuffer - 1>>,
                     <<-2 * AOIbuffer + 1, 2 * Extent>>,
                     <<-2 * Extent, -2 * AOIbuffer + 1>>,
                     <<-2 * AOIbuffer - 1, 2 * Extent>>}} :
        Overlap(p, p)}

\* GeoSeries.buffer(distance) with a negative distance: every edge of the
\* convex polygon moves inwards by -distance
buffer(p, distance) ==
    [x0 |-> p.x0 - distance, x1 |-> p.x1 + distance,
     y0 |-> p.y0 - distance, y1 |-> p.y1 + distance,
     lo |-> p.lo, hi |-> p.hi, inset |-> p.inset - distance]

\* a grid cell of side size with lower left corner <<x, y>>
Cell(x, y, size) == [x |-> x, y |-> y, size |-> size]

\* shapely's intersects of a grid cell and a polygon: they share a point
intersects(cell, p) ==
    LET a == Max(cell.x, p.x0)
        b == Min(cell.x + cell.size, p.x1)
        c == Max(cell.y, p.y0)
        d == Min(cell.y + cell.size, p.y1)
    IN  /\ a <= b
        /\ c <= d
        /\ LeqShifted(p.lo, 2 * p.inset, p.hi)
        /\ LeqShifted(a + c, p.inset, p.hi)
        /\ LeqShifted(p.lo, p.inset, b + d)

\* UtmZoneSplitter([shape], crs, size).get_bbox_list(): the cells of the
\* grid of the UTM zone, aligned to multiples of size, that intersect shape
UtmZoneSplitter(shape, size) ==
    {cell \in {Cell(i * size, j * size, size) :
                 i \in (-GridCells)..(GridCells - 1),
                 j \in (-GridCells)..(GridCells - 1)} :
        intersects(cell, shape)}

\* the three geojson files are read: pairwise non-overlapping polygons
InitAOI ==
    /\ pc = "aoi_read"
    /\ files = {ConfigSavePath}
    /\ disk = {}
    /\ tiffs = {}
    /\ workflow_args = <<>>
    /\ split = 1
    /\ draws = 0
    /\ cur_i = 0
    /\ timestamps_ = <<>>
    /\ timeinterval = <<>>
    /\ exec = <<>>
    /\ event = "none"
    /\ stdout = <<>>
    /\ merged_from = {}
    /\ results = NoResults
    /\ archive = {}
    /\ npixels = 0
    /\ samples = <<>>
    /\ aois \in {a \in [Range(Splits) -> Polygons] :
                   /\ ~Overlap(a["train"], a["validation"])
                   /\ ~Overlap(a["train"], a["test"])
                   /\ ~Overlap(a["validation"], a["test"])}
    /\ bbox_lists = NoAois
    /\ NoTransform

AOIFrame ==
    UNCHANGED <<files, disk, tiffs, workflow_args, split, draws, cur_i,
                timestamps_, timeinterval, exec, event, stdout, merged_from,
                results, archive, npixels, samples, tvars>>

\* aoi = aoi.to_crs(crs); aoi = aoi.buffer(config['AOIbuffer']), per split
AoiBuffer ==
    /\ pc = "aoi_read"
    /\ aois' = [s \in DOMAIN aois |-> buffer(aois[s], AOIbuffer)]
    /\ pc' = "aoi_buffered"
    /\ UNCHANGED bbox_lists
    /\ AOIFrame

\* bbox_splitter = UtmZoneSplitter(...); bbox_lists = {...}, per split
AoiSplit ==
    /\ pc = "aoi_buffered"
    /\ bbox_lists' = [s \in DOMAIN aois |->
                        UtmZoneSplitter(aois[s], patchpixelwidth * resolution)]
    /\ pc' = "aoi_split"
    /\ UNCHANGED aois
    /\ AOIFrame

NextAOI ==
    \/ AoiBuffer
    \/ AoiSplit

SpecAOI == InitAOI /\ [][NextAOI]_vars

-----------------------------------------------------------------------------
(* Example_Treecurrent/04_Testing: the transform Torchify *)

\* most axes of an array handed to Torchify
MaxDim == 3
\* longest axis of an array handed to Torchify
MaxSide == 2

\* a float entry: not-a-number, or the number n
NaN == [nan |-> TRUE, value |-> 0]
Float(n) == [nan |-> FALSE, value |-> n]

\* np.isnan of one entry
isnan(x) == x.nan

\* the index tuples of an array of a shape (axes count from 0)
Indices(shape) ==
    {idx \in [1..Len(shape) -> 0..(MaxSide - 1)] :
        \A k \in 1..Len(shape) : idx[k] < shape[k]}

\* the position of an index tuple in the row-major order of a shape
RECURSIVE Offset(_, _)
Offset(shape, idx) ==
    IF idx = <<>> THEN 0
    ELSE LET n == Len(idx)
         IN  Offset(SubSeq(shape, 1, n - 1), SubSeq(idx, 1, n - 1)) * shape[n]
               + idx[n]

\* the arrays handed to Torchify: every entry is its own row-major
\* position, except the entries that are NaN (none, one, or all of them)
Shapes == UNION {[1..d -> 1..MaxSide] : d \in 1..MaxDim}

NaNSets(shape) ==
    {{}, Indices(shape)} \cup {{idx} : idx \in Indices(shape)}

Arrays ==
    UNION {{[shape |-> shape,
             data |-> [idx \in Indices(shape) |->
                          IF idx \in nans THEN NaN
                          ELSE Float(Offset(shape, idx))]]
              : nans \in NaNSets(shape)} : shape \in Shapes}

\* the values of squeeze: a Python bool (False is 0, True is 1) or an int
Squeezes ==
    {[type |-> "bool", value |-> b] : b \in {0, 1}}
      \cup {[type |-> "int", value |-> k] : k \in 0..(MaxDim - 1)}

\* np.moveaxis(array, 0, -1): the first axis becomes the last one
torchify_first_last(array) ==
    LET d == Len(array.shape)
        shape == Tail(array.shape) \o <<Head(array.shape)>>
    IN  [shape |-> shape,
         data |-> [idx \in Indices(shape) |->
                      array.data[<<idx[d]>> \o SubSeq(idx, 1, d - 1)]]]

\* def torchify(array): return np.moveaxis(array, -1, 0)
torchify(array) ==
    LET d == Len(array.shape)
        shape == <<array.shape[d]>> \o SubSeq(array.shape, 1, d - 1)
    IN  [shape |-> shape,
         data |-> [idx \in Indices(shape) |->
                      array.data[Tail(idx) \o <<Head(idx)>>]]]

\* def nan_to_value(array, value=0): array[np.isnan(array)] = value
nan_to_value(array, value) ==
    [shape |-> array.shape,
     data |-> [idx \in DOMAIN array.data |->
                  IF isnan(array.data[idx]) THEN value ELSE array.data[idx]]]

\* ndarray.squeeze: the given axes, all of length one, are removed
squeeze(array, axes) ==
    LET d == Len(array.shape)
        IsKept(k) == (k - 1) \notin axes
        kept == SelectSeq([k \in 1..d |-> k], IsKept)
        shape == [j \in 1..Len(kept) |-> array.shape[kept[j]]]
    IN  [shape |-> shape,
         data |-> [idx \in Indices(shape) |->
                      array.data[[k \in 1..d |->
                          IF IsKept(k)
                          THEN idx[CHOOSE j \in 1..Len(kept) : kept[j] = k]
                          ELSE 0]]]]

\* Torchify.__call__(self, array): whether it raises, and what it returns.
\* "self.squeeze==True" holds for True and for the int 1;
\* squeeze(axis) raises for an axis out of range or longer than one.
Torchify(self, array) ==
    LET array_ == nan_to_value(torchify(array), self.nanvalue)
        d == Len(array_.shape)
        unit == {k \in 0..(d - 1) : array_.shape[k + 1] = 1}
    IN  IF self.squeeze.value = 1
        THEN [raises |-> FALSE, value |-> squeeze(array_, unit)]
        ELSE IF self.squeeze.type = "int"
        THEN IF self.squeeze.value \in unit
             THEN [raises |-> FALSE,
                   value |-> squeeze(array_, {self.squeeze.value})]
             ELSE [raises |-> TRUE, value |-> None]
        ELSE [raises |-> FALSE, value |-> array_]

\* a Torchify object and an array with at least one axis
InitTorchify ==
    /\ pc = "torchify"
    /\ files = {}
    /\ disk = {}
    /\ tiffs = {}
    /\ workflow_args = <<>>
    /\ split = 1
    /\ draws = 0
    /\ cur_i = 0
    /\ timestamps_ = <<>>
    /\ timeinterval = <<>>
    /\ exec = <<>>
    /\ event = "none"
    /\ stdout = <<>>
    /\ merged_from = {}
    /\ results = NoResults
    /\ archive = {}
    /\ npixels = 0
    /\ samples = <<>>
    /\ aois = NoAois
    /\ bbox_lists = NoAois
    /\ transform \in [squeeze : Squeezes, nanvalue : {Float(0), Float(-1)}]
    /\ passed \in Arrays
    /\ caller_array = passed
    /\ returned = None

\* the transform is called on the array.  np.moveaxis returns a view, so
\* the assignment of nan_to_value writes into the caller's array as well.
TorchifyCall ==
    /\ pc = "torchify"
    /\ LET r == Torchify(transform, caller_array)
       IN  /\ pc' = IF r.raises THEN "raised" ELSE "returned"
           /\ event' = IF r.raises THEN "squeeze_raise" ELSE "none"
           /\ returned' = r.value
    /\ caller_array' = nan_to_value(caller_array, transform.nanvalue)
    /\ UNCHANGED <<files, disk, tiffs, workflow_args, split, draws, cur_i,
                   timestamps_, timeinterval, exec, stdout, merged_from,
                   results, archive, npixels, samples, aois, bbox_lists,
                   transform, passed>>

NextTorchify == TorchifyCall

SpecTorchify == InitTorchify /\ [][NextTorchify]_vars

-----------------------------------------------------------------------------
(* 01_DataAcquisition: one run of the "Workflow Arguments" and the *)
(* "Executor" cells on their own                                    *)

\* longest workflow_args list of the run
MaxRun == 2

\* the configuration is stored; the training patch of an earlier run may
\* be on disk
InitRun ==
    /\ pc = "acq_draw"
    /\ files = {ConfigSavePath}
    /\ disk \in SUBSET {PriorTrain}
    /\ tiffs = {}
    /\ workflow_args = <<>>
    /\ split = 1
    /\ draws = 0
    /\ cur_i = 0
    /\ timestamps_ = <<>>
    /\ timeinterval = <<>>
    /\ exec = <<>>
    /\ event = "none"
    /\ stdout = <<>>
    /\ merged_from = {}
    /\ results = NoResults
    /\ archive = {}
    /\ npixels = 0
    /\ samples = <<>>
    /\ aois = NoAois
    /\ bbox_lists = NoAois
    /\ NoTransform

NextRun ==
    \/ AcqDraw
    \/ AcqTimestampUpTo(MaxRun)
    \/ AcqNextSplit
    \/ AcqBuilt
    \/ \E k \in 1..Len(exec) : AcqExecStart(k)
    \/ \E k \in 1..Len(exec) : AcqExecFinish(k)
    \/ AcqDone

SpecRun == InitRun /\ [][NextRun]_vars

-----------------------------------------------------------------------------
(* Properties *)

AcquisitionDirs == {dir_train, dir_validation, dir_test}

StoredAs(folder) ==
    {p \in disk : p.dir = dir_data \o <<folder[1]>> /\ p.name = folder[2]}

\* C1: a patch of the acquisition workflow is written if and only if its
\* flag valid is set, valid is the conjunction of valid_data and
\* valid_reference, and no patch stored below dir_data by the acquisition
\* has valid_data or valid_reference unset.
C1_OnlyValidSaved ==
    /\ [](\A p \in disk : p.dir \in AcquisitionDirs =>
            /\ p.meta_info.valid_data
            /\ p.meta_info.valid_reference)
    /\ [][\A k \in 1..Len(exec) :
            (pc = "acq_exec" /\ exec[k].st = "running"
                /\ exec'[k].st = "done") =>
              /\ exec'[k].valid
                   = (exec'[k].valid_data /\ exec'[k].valid_reference)
              /\ IF exec'[k].valid
                 THEN \E p \in disk' :
                        /\ p \in StoredAs(workflow_args[k].eopatch_folder)'
                        /\ p.meta_info.valid
                 ELSE disk' = disk]_vars

\* C1 witness: the executor has finished a patch with complete data whose
\* reference holds too little water; the patch is invalid and not on disk,
\* and the disk is as it was before the run.
C1_Witness ==
    /\ pc = "acq_exec"
    /\ \E k \in 1..Len(exec) :
         /\ exec[k].st = "done"
         /\ exec[k].valid_data /\ ~exec[k].valid_reference /\ ~exec[k].valid
         /\ StoredAs(workflow_args[k].eopatch_folder) = {}
    /\ disk = {PriorTrain}

\* C2: an argument is appended to workflow_args only for a patch folder
\* that does not exist below dir_data at that moment (notebooks 01 and 04).
C2_NoArgForExistingFolder ==
    [][\A j \in (Len(workflow_args) + 1)..Len(workflow_args') :
          ~exists(workflow_args'[j].eopatch_folder)]_vars

\* C2 witness: the Sentinel-1 query of the acquisition notebook found data
\* for a patch already on disk, and nothing was appended.
C2_Witness ==
    /\ pc \in {"acq_draw", "acq_ts"}
    /\ event = "s1_ok"
    /\ workflow_args = <<>>
    /\ PriorTrain \in disk

\* C3: every T-Digest merged into the global digest comes from a patch
\* stored below dir_train.
C3_OnlyTrainingDigests ==
    \A m \in merged_from : m.dir = dir_train

\* C3 witness: digests have been merged while patches of another directory
\* were on disk.
C3_Witness ==
    /\ pc = "norm_scaler"
    /\ merged_from # {}
    /\ \E p \in disk : p.dir = dir_validation
    /\ \E p \in disk : p.dir = dir_showcase

\* the grid cells share area
SharesArea(c, d) ==
    /\ c.x < d.x + d.size /\ d.x < c.x + c.size
    /\ c.y < d.y + d.size /\ d.y < c.y + c.size

\* C4: with the areas of interest of the three splits pairwise
\* non-overlapping and eroded by half the patch width, no grid cell selected
\* for one split shares area with a grid cell selected for another split.
C4_NoSharedCells ==
    pc = "aoi_split" =>
        \A s1, s2 \in DOMAIN bbox_lists :
            s1 # s2 =>
                \A c \in bbox_lists[s1], d \in bbox_lists[s2] :
                    ~SharesArea(c, d)

Abs(x) == IF x < 0 THEN -x ELSE x

\* C5: the Sentinel-1 frame kept by task_pick for the reference time t is
\* the acquisition closest in time to t among all acquisitions of the
\* archive of the bbox.
C5_PickedIsClosest ==
    "node_pick" \in DOMAIN results =>
        LET t == workflow_args[1].reference_time
            picked == results["node_pick"].data[1]
        IN  \A s \in archive : Abs(picked - t) <= Abs(s - t)

\* the number of pixels of a raster that are not zero
NonZero(raster) == Cardinality({k \in DOMAIN raster : raster[k] # 0})

\* C6: valid_reference is set exactly when the non-zero pixels of the
\* reference are at least 5% of its pixels (20 * count >= size): exactly
\* 5% is accepted, anything below is rejected.
C6_WaterdataThreshold ==
    "node_reference_check" \in DOMAIN results =>
        LET eopatch == results["node_reference_check"]
        IN  eopatch.meta_info.valid_reference
              <=> (20 * NonZero(eopatch.reference) >= Len(eopatch.reference))

\* C6 witness: a reference with exactly 5% water has been accepted.
C6_Witness ==
    /\ "node_reference_check" \in DOMAIN results
    /\ LET eopatch == results["node_reference_check"]
       IN  /\ 20 * NonZero(eopatch.reference) = Len(eopatch.reference)
           /\ eopatch.meta_info.valid_reference

\* C7: valid_data is set exactly when every element of the Sentinel-1 data
\* mask is non-zero, and a patch whose data mask misses a pixel is not
\* stored.
C7_IncompleteDataFiltered ==
    /\ "node_data_check" \in DOMAIN results =>
          LET eopatch == results["node_data_check"]
          IN  eopatch.meta_info.valid_data
                <=> (NonZero(eopatch.dmask_data) = Len(eopatch.dmask_data))
    /\ "node_save" \in DOMAIN results =>
          LET eopatch == results["node_save"]
          IN  NonZero(eopatch.dmask_data) < Len(eopatch.dmask_data)
                => disk = {}

\* C7 witness: the workflow has ended on a patch with a valid reference
\* whose data mask misses a single pixel, and nothing is stored.
C7_Witness ==
    /\ "node_save" \in DOMAIN results
    /\ LET eopatch == results["node_save"]
       IN  /\ NonZero(eopatch.dmask_data) = Len(eopatch.dmask_data) - 1
           /\ Len(eopatch.dmask_data) > 1
           /\ eopatch.meta_info.valid_reference
           /\ ~eopatch.meta_info.valid_data
    /\ disk = {}

\* C8: for every pixel, mask_reference is 1 if and only if the Sentinel-2
\* dataMask is 1 and the cloud flag CLM is 0.
C8_ReferenceMask ==
    "node_reference_mask" \in DOMAIN results =>
        LET eopatch == results["node_reference_mask"]
        IN  /\ DOMAIN eopatch.mask_reference = DOMAIN samples
            /\ \A k \in DOMAIN samples :
                  (eopatch.mask_reference[k] = 1)
                    <=> (samples[k].dataMask = 1 /\ samples[k].CLM = 0)

\* C8 witness: a reference mask has been joined for a scene with a clear
\* pixel, a cloudy pixel and a pixel without cloud information.
C8_Witness ==
    /\ "node_reference_mask" \in DOMAIN results
    /\ LET mask == results["node_reference_mask"].mask_reference
       IN  /\ \E k \in DOMAIN samples :
                samples[k].dataMask = 1 /\ samples[k].CLM = 255 /\ mask[k] = 0
           /\ \E k \in DOMAIN samples :
                samples[k].dataMask = 1 /\ samples[k].CLM = 0 /\ mask[k] = 1

\* C9: with the notebooks run in the documented order, no stage reads an
\* artifact (config.dill, the patches with the feature tdigest_data, the
\* scaler file) that has not been written, and every artifact is read
\* from the path it was written to.
C9_ReadsFindArtifacts ==
    /\ event # "read_missing"
    /\ pc # "cfg" => ConfigLoadPath \in files
    /\ pc \in {"inf_build", "inf_exec", "done"} => ScalerLoadPath \in files
    /\ \A m \in merged_from : \E p \in disk :
          /\ p.dir = m.dir /\ p.name = m.name
          /\ feature \in p.features

\* C9 witness: a pipeline started on an empty disk has loaded the scaler
\* in the inference notebook after merging digests.
C9_Witness ==
    /\ pc = "inf_build"
    /\ event = "read_ok"
    /\ merged_from # {}
    /\ PriorShowcase \notin disk

\* C10: a failing timestamp query of the acquisition notebook (Sentinel-2
\* per bbox, Sentinel-1 per reference timestamp) is caught and printed,
\* adds no entry, keeps the entries, and the loops go on.
C10_QueryFailureCaught ==
    [][event' \in {"s2_raise", "s1_raise"} =>
          /\ \E k \in 1..Len(stdout') : stdout'[k][1] = "error"
          /\ workflow_args' = workflow_args
          /\ pc' \in {"acq_draw", "acq_ts"}]_vars

\* C11: whenever parse_time_interval_observations raises for a bbox of the
\* inference notebook, the first one included, the exception is caught, a
\* diagnostic is printed, no entry is added, the loop goes on to the next
\* bbox, and the handler itself does not raise.
C11_ParseFailureCaught ==
    [][event' \in {"parse_raise", "handler_raise"} =>
          /\ \E k \in 1..Len(stdout') : stdout'[k][1] = "error"
          /\ workflow_args' = workflow_args
          /\ pc' = "inf_build"
          /\ cur_i' = cur_i + 1]_vars

\* the entry Torchify has to deliver for the entry x of its input
Replaced(x) == IF isnan(x) THEN transform.nanvalue ELSE x

\* the index of the input entry j after the last axis moved to position 0
Moved(j) == <<j[Len(j)]>> \o SubSeq(j, 1, Len(j) - 1)

\* C12 as stated: the array Torchify returns has the last input axis at
\* position 0 and the other axes in their order, every NaN entry replaced
\* by nanvalue and every other entry equal to the input entry.
C12_TorchifyMovesLastAxis ==
    pc = "returned" =>
        /\ returned.shape = Moved(passed.shape)
        /\ \A j \in Indices(passed.shape) :
              returned.data[Moved(j)] = Replaced(passed.data[j])

\* the axes (counted from 0, after the move) that the squeeze argument
\* removes: none for False, every axis of length one for True and for 1,
\* the axis k for another int k
Squeezed ==
    LET shape == Moved(passed.shape)
    IN  IF transform.squeeze.value = 1
        THEN {k \in 0..(Len(shape) - 1) : shape[k + 1] = 1}
        ELSE IF transform.squeeze.type = "int"
        THEN {transform.squeeze.value}
        ELSE {}

\* a sequence without the positions of the squeezed axes
RECURSIVE Unsqueezed(_, _)
Unsqueezed(seq, k) ==
    IF k > Len(seq) THEN <<>>
    ELSE (IF (k - 1) \in Squeezed THEN <<>> ELSE <<seq[k]>>)
           \o Unsqueezed(seq, k + 1)

\* C12, amended: when Torchify returns, the result is the input with the
\* last axis moved to position 0, the other axes in their order, and the
\* axes of length one chosen by squeeze removed; every NaN entry is
\* replaced by nanvalue and every other entry equals the input entry.
C12_TorchifyMovesAndSqueezes ==
    pc = "returned" =>
        /\ \A k \in Squeezed : Moved(passed.shape)[k + 1] = 1
        /\ returned.shape = Unsqueezed(Moved(passed.shape), 1)
        /\ \A j \in Indices(passed.shape) :
              returned.data[Unsqueezed(Moved(j), 1)]
                = Replaced(passed.data[j])

\* C12 witness: Torchify(squeeze=1) returned an array with fewer axes for
\* a three-axes input of which one entry is NaN.
C12_Witness ==
    /\ pc = "returned"
    /\ transform.squeeze = [type |-> "int", value |-> 1]
    /\ Len(passed.shape) = 3
    /\ Len(returned.shape) = 1
    /\ \E i, j \in Indices(passed.shape) :
          /\ isnan(passed.data[i])
          /\ ~isnan(passed.data[j])
          /\ returned.data[Unsqueezed(Moved(i), 1)] = transform.nanvalue

\* the GeoTIFF task_tiff writes for the patch of a showcase folder
TiffOf(p) == [dir |-> dir_tiffs_showcase, name |-> <<"water">> \o p.name]

\* C14: in the inference workflow a patch is saved only after its GeoTIFF
\* export, and exported only after the model forward pass; so for every
\* showcase patch folder on disk the GeoTIFF water_<i>_<interval> of that
\* patch is in dir_tiffs_showcase.
C14_TiffBeforeSave ==
    /\ [](\A p \in disk : p.dir = dir_showcase => TiffOf(p) \in tiffs)
    /\ [][pc = "inf_exec" =>
            \A k \in 1..Len(exec) :
               /\ (exec'[k].st = "node_save" /\ exec[k].st # "node_save")
                     => exec[k].st = "node_tiff"
               /\ (exec'[k].st = "node_tiff" /\ exec[k].st # "node_tiff")
                     => exec[k].st = "node_model"]_vars

\* C14 witness: the inference run has saved a showcase patch that was not
\* on disk before, and its GeoTIFF is in dir_tiffs_showcase.
C14_Witness ==
    /\ pc = "inf_exec"
    /\ \E k \in 1..Len(exec) :
         /\ exec[k].st = "node_save"
         /\ \E p \in disk :
              /\ p.dir = dir_showcase
              /\ p.name = workflow_args[k].eopatch_folder[2]
              /\ p # PriorShowcase
              /\ TiffOf(p) \in tiffs
              /\ TiffOf(p) # PriorTiff

\* C15: within one run of the acquisition notebook no two entries of
\* workflow_args target the same eopatch_folder, so no two workflow
\* executions running at the same time write the same patch folder.
C15_NoDuplicateFolders ==
    /\ \A j, k \in 1..Len(workflow_args) :
          j # k => workflow_args[j].eopatch_folder
                     # workflow_args[k].eopatch_folder
    /\ pc = "acq_exec" =>
          \A j, k \in Running :
             j # k => workflow_args[j].eopatch_folder
                        # workflow_args[k].eopatch_folder

====
